---- MODULE Spec2Model ----
(***************************************************************************)
(* Model of backend/recommendations.py (RecommendationView.get) and the    *)
(* Achievement table of backend/models.py.                                 *)
(*                                                                         *)
(* One behaviour follows one request: the view keeps no state between      *)
(* requests, so the state is the catalog table, the request, what the      *)
(* remote API answered, the external calls the handler made (in order) and *)
(* the handler's outcome.                                                  *)
(*                                                                         *)
(* Python strings on which the code does a substring test are sequences of *)
(* one-character strings; strings that are only compared or copied are     *)
(* TLA+ strings.                                                           *)
(***************************************************************************)
EXTENDS Integers, Sequences, FiniteSets, TLC

VARIABLES
    catalog,   \* the Achievement table (never written by the view)
    pc,        \* "idle" before the request is handled, "done" after
    request,   \* the request's api_key query parameter
    remote,    \* what the remote API answered, when it was asked
    calls,     \* the external calls the handler made, in order
    frame,     \* the handler's local variables when it returned or raised
    response   \* what the handler returned, or the exception it raised

vars == <<catalog, pc, request, remote, calls, frame, response>>

----------------------------------------------------------------------------
(* Bounds of the model *)

\* ids 1..MaxId are the achievement ids of catalog rows and progress records
MaxId == 2
\* a fetched list holds at most MaxRecords elements
MaxRecords == 2

Ids == 1..MaxId

----------------------------------------------------------------------------
(* Strings *)

Story == <<"S", "t", "o", "r", "y">>
Explorer == <<"E", "x", "p", "l", "o", "r", "e", "r">>
Pvp == "Pvp"

LivingStory == <<"L", "i", "v", "i", "n", "g", " ">> \o Story
ExplorerMaguuma == Explorer \o <<":", " ", "M", "a", "g", "u", "u", "m", "a">>
Slayer == <<"S", "l", "a", "y", "e", "r">>

\* Python's `sub in s` on two str values: s holds sub as a contiguous slice
Contains(sub, s) ==
    \E i \in 1..(Len(s) - Len(sub) + 1) : SubSeq(s, i, i + Len(sub) - 1) = sub

\* Python's `x in lst` on a list: some element equals x
Member(x, lst) == \E i \in 1..Len(lst) : lst[i] = x

Alphabet == <<"A", "B", "C", "D", "E", "F">>
Ord(c) == CHOOSE k \in 1..Len(Alphabet) : Alphabet[k] = c

\* s sorts strictly before t (code-point order, a proper prefix first)
RECURSIVE StrLess(_, _)
StrLess(s, t) ==
    IF t = <<>> THEN FALSE
    ELSE IF s = <<>> THEN TRUE
    ELSE IF Ord(Head(s)) # Ord(Head(t)) THEN Ord(Head(s)) < Ord(Head(t))
    ELSE StrLess(Tail(s), Tail(t))

----------------------------------------------------------------------------
(* The Achievement table *)

CategoryNames == {Slayer, ExplorerMaguuma}
GroupNames == {<<>>, LivingStory}
FlagLists == {<<"CategoryDisplay">>, <<"CategoryDisplay", Pvp>>}

\* the name column of the row with gw2_id i: distinct names, whose order is
\* not the order of the ids
NameOf(i) == <<Alphabet[((2 * i) % 5) + 1]>>
RequirementOf(i) == IF i % 2 = 1 THEN "Complete the objective." ELSE ""

Attrs ==
    [category_name : CategoryNames, group_name : GroupNames, flags : FlagLists,
     is_legendary : BOOLEAN, community_priority : BOOLEAN]

Achievement(i, a) ==
    [gw2_id |-> i, name |-> NameOf(i), requirement |-> RequirementOf(i),
     category_name |-> a.category_name, group_name |-> a.group_name,
     flags |-> a.flags, is_legendary |-> a.is_legendary,
     community_priority |-> a.community_priority]

\* every table: a set of rows, gw2_id unique
Tables ==
    UNION { { { Achievement(i, f[i]) : i \in S } : f \in [S -> Attrs] } :
            S \in SUBSET Ids }

\* Meta.ordering = ['name']: the rows of a query, ascending by name
RECURSIVE OrderByName(_)
OrderByName(rows) ==
    IF rows = {} THEN <<>>
    ELSE LET first == CHOOSE r \in rows :
                          \A o \in rows \ {r} : StrLess(r.name, o.name)
         IN  <<first>> \o OrderByName(rows \ {first})

\* Achievement.objects.filter(gw2_id__in=ids)
Filter(table, ids) ==
    OrderByName({r \in table : Member(r.gw2_id, ids)})

\* mutant of Exclude: the completed rows are not left out
ExcludeNothing(table, ids) == OrderByName(table)

\* Achievement.objects.exclude(gw2_id__in=ids)
Exclude(table, ids) ==
    OrderByName({r \in table : ~Member(r.gw2_id, ids)})

----------------------------------------------------------------------------
(* Python values *)

\* a dict as a function on its keys
EmptyDict == <<>>
DictGet(d, k, default) == IF k \in DOMAIN d THEN d[k] ELSE default
DictPut(d, k, v) == [x \in (DOMAIN d) \cup {k} |-> IF x = k THEN v ELSE d[x]]

\* a call either returns a value or raises
Ok(v) == [raised |-> "", value |-> v]
Raise(e) == [raised |-> e, value |-> <<>>]

\* an element met while iterating over the parsed body: a progress record
\* (a dict) or something that is no dict
Dict(i, c, m, d) == [type |-> "dict", id |-> i, current |-> c, max |-> m, done |-> d]
NonDict(t) == [type |-> t, id |-> 0, current |-> 0, max |-> 0, done |-> FALSE]

----------------------------------------------------------------------------
(* The request and the remote API *)

None == "None"
ApiKeys == {None, "", "ABCD-1234"}

\* mutant of Truthy: only an absent parameter counts as missing
IsNotNone(api_key) == api_key # None

\* `not api_key` is false exactly for a non-empty string
Truthy(api_key) == api_key # None /\ api_key # ""

Currents == {7, 8}
Maxes == {0, 10}

\* progress records the API can send: not done with any current/max, or done
ProgressRecords ==
    { Dict(i, c, m, FALSE) : i \in Ids, c \in Currents, m \in Maxes }
    \cup { Dict(i, 10, 10, TRUE) : i \in Ids }

Elements == ProgressRecords \cup {NonDict("int")}

SeqsUpTo(S, n) == UNION { [1..k -> S] : k \in 0..n }

StatusCodes == {200, 401}

\* the body of an HTTP response: text that is no JSON, or a JSON value
Bodies ==
    {[json |-> "invalid", items |-> <<>>], [json |-> "null", items |-> <<>>],
     [json |-> "object", items |-> <<>>],
     [json |-> "object", items |-> <<NonDict("str")>>]}
    \cup { [json |-> "list", items |-> l] : l \in SeqsUpTo(Elements, MaxRecords) }

\* what requests.get meets: no response at all, or a response
Outcomes ==
    {[kind |-> "connection_error", status_code |-> 0,
      body |-> [json |-> "invalid", items |-> <<>>]]}
    \cup [kind : {"response"}, status_code : StatusCodes, body : Bodies]

NotContacted ==
    [kind |-> "not_contacted", status_code |-> 0,
     body |-> [json |-> "invalid", items |-> <<>>]]

\* requests.get(...): raises when there is no response, else returns it
RequestsGet(outcome) ==
    IF outcome.kind = "connection_error" THEN Raise("ConnectionError")
    ELSE Ok(outcome)

\* user_data_res.json(): raises on a body that is no JSON
Json(res) ==
    IF res.body.json = "invalid" THEN Raise("JSONDecodeError") ELSE Ok(res.body)

\* `for a in user_achievements`: None is not iterable, a dict yields its keys
\* (strings), a list its elements
Iterate(user_achievements) ==
    IF user_achievements.json = "null" THEN Raise("TypeError")
    ELSE Ok(user_achievements.items)

----------------------------------------------------------------------------
(* RecommendationView.get, line by line *)

AffinityBonus == 1
PriorityBonus == 10

\* completed_ids = [a['id'] for a in user_achievements if a.get('done')]
\* (a.get raises on an element that is no dict)
RECURSIVE CompletedIds(_)
CompletedIds(items) ==
    IF items = <<>> THEN Ok(<<>>)
    ELSE LET a == Head(items) IN
         IF a.type # "dict" THEN Raise("AttributeError")
         ELSE LET rest == CompletedIds(Tail(items)) IN
              IF rest.raised # "" THEN rest
              ELSE Ok(IF a.done THEN <<a.id>> \o rest.value ELSE rest.value)

\* in_progress = {a['id']: a for a in user_achievements if not a.get('done')}
\* (a later record replaces an earlier one with the same id)
RECURSIVE InProgress(_, _)
InProgress(items, d) ==
    IF items = <<>> THEN Ok(d)
    ELSE LET a == Head(items) IN
         IF a.type # "dict" THEN Raise("AttributeError")
         ELSE InProgress(Tail(items), IF ~a.done THEN DictPut(d, a.id, a) ELSE d)

\* mutant of AffinityLoop: a category is marked, not counted
RECURSIVE AffinityLoopFlag(_, _)
AffinityLoopFlag(history, affinity_map) ==
    IF history = <<>> THEN affinity_map
    ELSE AffinityLoopFlag(Tail(history),
                          DictPut(affinity_map, Head(history).category_name, 1))

\* for ach in history: affinity_map[c] = affinity_map.get(c, 0) + 1
RECURSIVE AffinityLoop(_, _)
AffinityLoop(history, affinity_map) ==
    IF history = <<>> THEN affinity_map
    ELSE LET c == Head(history).category_name IN
         AffinityLoop(Tail(history),
                      DictPut(affinity_map, c,
                              DictGet(affinity_map, c, 0) + AffinityBonus))

\* mutant of Score: the priority bonus replaces the affinity count
ScoreOverwrite(ach, affinity_map) ==
    IF ach.community_priority THEN 10
    ELSE DictGet(affinity_map, ach.category_name, 0)

\* score = affinity_map.get(ach.category_name, 0)
\* if ach.community_priority: score += 10
Score(ach, affinity_map) ==
    LET score == DictGet(affinity_map, ach.category_name, 0) IN
    IF ach.community_priority THEN score + PriorityBonus ELSE score

\* mutant of AchData: the default of max is that of progress
AchDataDefaultZero(ach, found, progress_obj) ==
    [id |-> ach.gw2_id, name |-> ach.name, requirement |-> ach.requirement,
     category |-> ach.category_name,
     progress |-> IF found THEN progress_obj.current ELSE 0,
     max |-> IF found THEN progress_obj.max ELSE 0]

\* ach_data = {...}: progress_obj is given as (found, record)
AchData(ach, found, progress_obj) ==
    [id |-> ach.gw2_id, name |-> ach.name, requirement |-> ach.requirement,
     category |-> ach.category_name,
     progress |-> IF found THEN progress_obj.current ELSE 0,
     max |-> IF found THEN progress_obj.max ELSE 1]

\* mutant of TrueDiv: a zero max gives the ratio 0
TrueDivGuarded(current, max) ==
    IF max = 0 THEN Ok(<<0, 1>>) ELSE Ok(<<current, max>>)

\* current / max: the quotient as the pair <<current, max>>
TrueDiv(current, max) ==
    IF max = 0 THEN Raise("ZeroDivisionError") ELSE Ok(<<current, max>>)

\* mutant of Above07: q >= 0.7
AtLeast07(q) == 10 * q[1] >= 7 * q[2]

\* q > 0.7. For the counters of the model the float quotient of two
\* integers exceeds the float 0.7 exactly when the exact quotient exceeds 7/10.
Above07(q) == 10 * q[1] > 7 * q[2]

\* progress_obj and (progress_obj.get('current', 0) / progress_obj.get('max', 1)) > 0.7
NearlyComplete(found, progress_obj) ==
    IF ~found THEN Ok(FALSE)
    ELSE LET q == TrueDiv(progress_obj.current, progress_obj.max) IN
         IF q.raised # "" THEN q ELSE Ok(Above07(q.value))

\* mutant of Section: the Pvp flag is tested before is_legendary
SectionPvpFirst(ach) ==
    IF Member(Pvp, ach.flags) THEN "pvp"
    ELSE IF ach.is_legendary THEN "legendary"
    ELSE IF Contains(Story, ach.group_name) THEN "story"
    ELSE IF Contains(Explorer, ach.category_name) THEN "exploration"
    ELSE ""

\* the if / elif chain: the section the entry is appended to, "" for none
Section(ach) ==
    IF ach.is_legendary THEN "legendary"
    ELSE IF Member(Pvp, ach.flags) THEN "pvp"
    ELSE IF Contains(Story, ach.group_name) THEN "story"
    ELSE IF Contains(Explorer, ach.category_name) THEN "exploration"
    ELSE ""

Sections == {"legendary", "pvp", "story", "exploration"}
Keys == {"nearly_complete"} \cup Sections

EmptyRecommendations == [k \in Keys |-> <<>>]

\* recommendations[key].append(ach_data)
AppendTo(recommendations, key, ach_data) ==
    [recommendations EXCEPT ![key] = Append(@, ach_data)]

\* mutant of ScanLoop: an entry whose score reaches the priority bonus goes to
\* the front of its lists
RECURSIVE ScanLoopByScore(_, _, _, _, _)
ScanLoopByScore(potential, in_progress, affinity_map, recommendations, scores) ==
    IF potential = <<>>
    THEN [raised |-> "", recommendations |-> recommendations, scores |-> scores]
    ELSE LET ach == Head(potential)
             found == ach.gw2_id \in DOMAIN in_progress
             progress_obj == DictGet(in_progress, ach.gw2_id, NonDict("NoneType"))
             score == Score(ach, affinity_map)
             scored == Append(scores, [id |-> ach.gw2_id, score |-> score])
             ach_data == AchData(ach, found, progress_obj)
             nearly == NearlyComplete(found, progress_obj)
             Put(recs, key) ==
                 IF score >= PriorityBonus
                 THEN [recs EXCEPT ![key] = <<ach_data>> \o @]
                 ELSE AppendTo(recs, key, ach_data)
         IN  IF nearly.raised # ""
             THEN [raised |-> nearly.raised, recommendations |-> recommendations,
                   scores |-> scored]
             ELSE LET r1 == IF nearly.value
                            THEN Put(recommendations, "nearly_complete")
                            ELSE recommendations
                      r2 == IF Section(ach) # "" THEN Put(r1, Section(ach)) ELSE r1
                  IN  ScanLoopByScore(Tail(potential), in_progress, affinity_map,
                                      r2, scored)

\* for ach in potential: ... ; yields the locals at the end of the loop, or
\* at the raise that left it
RECURSIVE ScanLoop(_, _, _, _, _)
ScanLoop(potential, in_progress, affinity_map, recommendations, scores) ==
    IF potential = <<>>
    THEN [raised |-> "", recommendations |-> recommendations, scores |-> scores]
    ELSE LET ach == Head(potential)
             found == ach.gw2_id \in DOMAIN in_progress
             progress_obj == DictGet(in_progress, ach.gw2_id, NonDict("NoneType"))
             score == Score(ach, affinity_map)
             scored == Append(scores, [id |-> ach.gw2_id, score |-> score])
             ach_data == AchData(ach, found, progress_obj)
             nearly == NearlyComplete(found, progress_obj)
         IN  IF nearly.raised # ""
             THEN [raised |-> nearly.raised, recommendations |-> recommendations,
                   scores |-> scored]
             ELSE LET r1 == IF nearly.value
                            THEN AppendTo(recommendations, "nearly_complete", ach_data)
                            ELSE recommendations
                      r2 == IF Section(ach) # ""
                            THEN AppendTo(r1, Section(ach), ach_data)
                            ELSE r1
                  IN  ScanLoop(Tail(potential), in_progress, affinity_map, r2, scored)

\* the locals of a handler that has not yet reached the affinity stage
NoFrame ==
    [completed_ids |-> <<>>, affinity_map |-> EmptyDict, in_progress |-> EmptyDict,
     recommendations |-> EmptyRecommendations, scores |-> <<>>]

NoResponse ==
    [kind |-> "none", status |-> 0, error |-> "", raised |-> "",
     recommendations |-> EmptyRecommendations]

\* Response(data, status=...)
ErrorResponse(message, status) ==
    [kind |-> "response", status |-> status, error |-> message, raised |-> "",
     recommendations |-> EmptyRecommendations]
Response(recommendations) ==
    [kind |-> "response", status |-> 200, error |-> "", raised |-> "",
     recommendations |-> recommendations]

\* an exception that leaves get: the view catches nothing, the request fails
\* with that exception and no response body of the view
Raised(e) ==
    [kind |-> "raised", status |-> 0, error |-> "", raised |-> e,
     recommendations |-> EmptyRecommendations]

Result(resp, made, remoteSeen, locals) ==
    [response |-> resp, calls |-> made, remote |-> remoteSeen, frame |-> locals]

\* def get(self, request), on the table and on what requests.get will meet
get(api_key, outcome, table) ==
    IF ~Truthy(api_key)
    THEN Result(ErrorResponse("API Key required", 400), <<>>, NotContacted, NoFrame)
    ELSE
    LET user_data_res == RequestsGet(outcome)
        fetched == <<"requests.get">>
    IN
    IF user_data_res.raised # ""
    THEN Result(Raised(user_data_res.raised), fetched, outcome, NoFrame)
    ELSE
    LET user_achievements == Json(user_data_res.value) IN
    IF user_achievements.raised # ""
    THEN Result(Raised(user_achievements.raised), fetched, outcome, NoFrame)
    ELSE
    LET items == Iterate(user_achievements.value) IN
    IF items.raised # ""
    THEN Result(Raised(items.raised), fetched, outcome, NoFrame)
    ELSE
    LET completed_ids == CompletedIds(items.value) IN
    IF completed_ids.raised # ""
    THEN Result(Raised(completed_ids.raised), fetched, outcome, NoFrame)
    ELSE
    LET history == Filter(table, completed_ids.value)
        affinity_map == AffinityLoop(history, EmptyDict)
        in_progress == InProgress(items.value, EmptyDict)
    IN
    IF in_progress.raised # ""
    THEN Result(Raised(in_progress.raised), fetched \o <<"Achievement.filter">>,
                outcome,
                [NoFrame EXCEPT !.completed_ids = completed_ids.value,
                                !.affinity_map = affinity_map])
    ELSE
    LET potential == Exclude(table, completed_ids.value)
        scan == ScanLoop(potential, in_progress.value, affinity_map,
                         EmptyRecommendations, <<>>)
        locals == [completed_ids |-> completed_ids.value,
                   affinity_map |-> affinity_map,
                   in_progress |-> in_progress.value,
                   recommendations |-> scan.recommendations,
                   scores |-> scan.scores]
        read == fetched \o <<"Achievement.filter", "Achievement.exclude">>
    IN
    IF scan.raised # ""
    THEN Result(Raised(scan.raised), read, outcome, locals)
    ELSE Result(Response(scan.recommendations), read, outcome, locals)

----------------------------------------------------------------------------
(* The state machine *)

Init ==
    /\ catalog \in Tables
    /\ pc = "idle"
    /\ request = [api_key |-> None]
    /\ remote = NotContacted
    /\ calls = <<>>
    /\ frame = NoFrame
    /\ response = NoResponse

\* a GET request with query parameter api_key is handled; requests.get meets
\* outcome if the handler calls it
Get(api_key, outcome) ==
    /\ pc = "idle"
    /\ LET r == get(api_key, outcome, catalog) IN
       /\ request' = [api_key |-> api_key]
       /\ remote' = r.remote
       /\ calls' = r.calls
       /\ frame' = r.frame
       /\ response' = r.response
    /\ pc' = "done"
    /\ UNCHANGED catalog

Next == \E api_key \in ApiKeys, outcome \in Outcomes : Get(api_key, outcome)

Spec == Init /\ [][Next]_vars

----------------------------------------------------------------------------
(* What the claims speak of, stated on the inputs and the outcome *)

Handled == pc = "done"
KeyMissing == request.api_key = None \/ request.api_key = ""
Succeeded == Handled /\ response.kind = "response" /\ response.status = 200
Failed == Handled /\ response.kind = "raised"

\* the progress snapshot: the elements of the fetched body
Snapshot == remote.body.items
NotDoneAt(id) == {i \in 1..Len(Snapshot) : Snapshot[i].id = id /\ ~Snapshot[i].done}
DoneIds == {Snapshot[i].id : i \in {j \in 1..Len(Snapshot) : Snapshot[j].done}}
\* the not-done record of id that comes last in the snapshot
LastNotDone(id) == Snapshot[CHOOSE i \in NotDoneAt(id) : \A j \in NotDoneAt(id) : j <= i]

NotCompleted == {r \in catalog : r.gw2_id \notin DoneIds}
Row(id) == CHOOSE r \in catalog : r.gw2_id = id

Bucket(key) == response.recommendations[key]
IdsIn(list) == {list[i].id : i \in 1..Len(list)}
\* the record's current/max is defined and exceeds 7/10
SevenTenths(rec) == rec.max # 0 /\ 10 * rec.current > 7 * rec.max

\* the i-th predicate of the chain legendary, pvp, story, exploration
Chain == <<"legendary", "pvp", "story", "exploration">>
Satisfies(r, i) ==
    CASE i = 1 -> r.is_legendary
      [] i = 2 -> \E n \in 1..Len(r.flags) : r.flags[n] = "Pvp"
      [] i = 3 -> Contains(Story, r.group_name)
      [] i = 4 -> Contains(Explorer, r.category_name)

\* the number of completed catalog rows of category c
CompletedIn(c) ==
    Cardinality({r \in catalog : r.category_name = c /\ r.gw2_id \in DoneIds})

----------------------------------------------------------------------------
(* C1 *)

\* C1: in the returned buckets a catalog entry is in the section Chain[i]
\* exactly when it is not completed, satisfies the i-th predicate and none
\* before it; so no entry is in two of legendary, pvp, story, exploration, and
\* an is_legendary entry is in legendary and in no other section.
C1_Chain ==
    Succeeded =>
        /\ \A r \in catalog : \A i \in 1..4 :
               r.gw2_id \in IdsIn(Bucket(Chain[i]))
               <=> /\ r \in NotCompleted
                   /\ Satisfies(r, i)
                   /\ \A j \in 1..(i - 1) : ~Satisfies(r, j)
        /\ \A i, j \in 1..4 :
               i # j => IdsIn(Bucket(Chain[i])) \cap IdsIn(Bucket(Chain[j])) = {}
        /\ \A r \in NotCompleted :
               r.is_legendary =>
                   /\ r.gw2_id \in IdsIn(Bucket("legendary"))
                   /\ \A i \in 2..4 : r.gw2_id \notin IdsIn(Bucket(Chain[i]))

\* a legendary entry that also satisfies the three later predicates was returned
C1_Witness ==
    /\ Succeeded
    /\ \E r \in NotCompleted :
           /\ \A i \in 1..4 : Satisfies(r, i)
           /\ r.gw2_id \in IdsIn(Bucket("legendary"))
    /\ \E r \in NotCompleted :
           /\ ~Satisfies(r, 1) /\ ~Satisfies(r, 2) /\ Satisfies(r, 3) /\ Satisfies(r, 4)
           /\ r.gw2_id \in IdsIn(Bucket("story"))

----------------------------------------------------------------------------
(* C2 *)

\* C2 as stated: a not-completed entry is in nearly_complete exactly when the
\* snapshot holds a not-done record for its id whose current/max exceeds 0.7.
C2_AnyRecord ==
    Succeeded =>
        \A r \in NotCompleted :
            r.gw2_id \in IdsIn(Bucket("nearly_complete"))
            <=> \E i \in NotDoneAt(r.gw2_id) : SevenTenths(Snapshot[i])

\* C2, amended: a not-completed entry is in nearly_complete exactly when the
\* snapshot holds a not-done record for its id and the last such record has
\* 10*current > 7*max, whatever section the entry is in; a completed entry or
\* an id outside the catalog is never in nearly_complete.
C2_LastRecord ==
    Succeeded =>
        /\ \A r \in NotCompleted :
               r.gw2_id \in IdsIn(Bucket("nearly_complete"))
               <=> /\ NotDoneAt(r.gw2_id) # {}
                   /\ SevenTenths(LastNotDone(r.gw2_id))
        /\ IdsIn(Bucket("nearly_complete")) \subseteq {r.gw2_id : r \in NotCompleted}

\* one entry at 8/10 was returned as nearly complete and in a section, another
\* at exactly 7/10 was not
C2_Witness ==
    /\ Succeeded
    /\ \E r \in NotCompleted :
           /\ NotDoneAt(r.gw2_id) # {}
           /\ LastNotDone(r.gw2_id).current = 8
           /\ r.gw2_id \in IdsIn(Bucket("nearly_complete"))
           /\ r.gw2_id \in IdsIn(Bucket("pvp"))
    /\ \E r \in NotCompleted :
           /\ NotDoneAt(r.gw2_id) # {}
           /\ LastNotDone(r.gw2_id).current = 7
           /\ LastNotDone(r.gw2_id).max = 10
           /\ r.gw2_id \notin IdsIn(Bucket("nearly_complete"))

----------------------------------------------------------------------------
(* C3 *)

\* C3: a request whose api_key is absent or empty is answered with status 400
\* and no buckets, and the handler has made no external call: neither the
\* remote fetch nor a read of the Achievement table.
C3_MissingKey ==
    (Handled /\ KeyMissing) =>
        /\ response.kind = "response"
        /\ response.status = 400
        /\ response.recommendations = [k \in Keys |-> <<>>]
        /\ calls = <<>>
        /\ remote.kind = "not_contacted"

\* a request with an empty api_key was answered over a catalog that has rows
C3_Witness ==
    /\ Handled
    /\ request.api_key = ""
    /\ response.status = 400
    /\ catalog # {}

----------------------------------------------------------------------------
(* C4 *)

\* the fetch failed: no response, a non-success status, or a body that is no
\* JSON list of progress records
FetchFailed ==
    \/ remote.kind = "connection_error"
    \/ /\ remote.kind = "response"
       /\ \/ remote.status_code # 200
          \/ remote.body.json # "list"
          \/ \E i \in 1..Len(remote.body.items) : remote.body.items[i].type # "dict"

\* C4: when the remote fetch fails the request never ends in a successful
\* response carrying buckets, and the fetch is issued at most once.
C4_FetchFailureSurfaced ==
    (Handled /\ FetchFailed) =>
        /\ ~Succeeded
        /\ Cardinality({i \in 1..Len(calls) : calls[i] = "requests.get"}) <= 1

----------------------------------------------------------------------------
(* C5 *)

\* C5: every entry of every returned bucket is a catalog row whose gw2_id is
\* not the id of a done record of the snapshot.
C5_OnlyNotCompleted ==
    Succeeded =>
        \A k \in Keys : \A i \in 1..Len(Bucket(k)) :
            /\ \E r \in catalog : r.gw2_id = Bucket(k)[i].id
            /\ \A j \in 1..Len(Snapshot) :
                   Snapshot[j].done => Snapshot[j].id # Bucket(k)[i].id

\* the snapshot holds a done and a not-done record of one catalog row at 8/10
\* that is legendary, and another row was returned
C5_Witness ==
    /\ Succeeded
    /\ \E r \in catalog :
           /\ r.gw2_id \in DoneIds
           /\ NotDoneAt(r.gw2_id) # {}
           /\ SevenTenths(LastNotDone(r.gw2_id))
           /\ r.is_legendary
    /\ Bucket("legendary") # <<>>

----------------------------------------------------------------------------
(* C6 *)

ReachedAffinity ==
    Handled /\ \E i \in 1..Len(calls) : calls[i] = "Achievement.filter"

\* C6: the affinity map has exactly the categories with at least one completed
\* catalog row as keys, each mapped to the number of those rows; with no done
\* record it is empty.
C6_AffinityCounts ==
    ReachedAffinity =>
        /\ {frame.completed_ids[i] : i \in 1..Len(frame.completed_ids)} = DoneIds
        /\ DOMAIN frame.affinity_map = {c \in CategoryNames : CompletedIn(c) > 0}
        /\ \A c \in DOMAIN frame.affinity_map : frame.affinity_map[c] = CompletedIn(c)
        /\ DoneIds = {} => DOMAIN frame.affinity_map = {}

\* two completed rows of one category were counted
C6_Witness ==
    /\ ReachedAffinity
    /\ \E c \in DOMAIN frame.affinity_map : frame.affinity_map[c] >= 2

----------------------------------------------------------------------------
(* C7 *)

ScoreAt(id) ==
    frame.scores[CHOOSE i \in 1..Len(frame.scores) : frame.scores[i].id = id].score

----------------------------------------------------------------------------
(* C8 *)

\* C8: an entry returned for a catalog row carries the row's gw2_id, name,
\* requirement and category_name; its progress and max are the current and max
\* of the not-done record of that id (the last one, if the snapshot holds
\* several), or 0 and 1 when the snapshot holds no such record; the entry is
\* the same in every bucket it is in.
C8_EntryData ==
    Succeeded =>
        /\ \A k \in Keys : \A i \in 1..Len(Bucket(k)) :
               LET e == Bucket(k)[i]
                   r == Row(e.id)
               IN  /\ \E c \in catalog : c.gw2_id = e.id
                   /\ e.name = r.name
                   /\ e.requirement = r.requirement
                   /\ e.category = r.category_name
                   /\ IF NotDoneAt(e.id) # {}
                      THEN /\ e.progress = LastNotDone(e.id).current
                           /\ e.max = LastNotDone(e.id).max
                      ELSE e.progress = 0 /\ e.max = 1
        /\ \A k1, k2 \in Keys :
               \A i \in 1..Len(Bucket(k1)) : \A j \in 1..Len(Bucket(k2)) :
                   Bucket(k1)[i].id = Bucket(k2)[j].id => Bucket(k1)[i] = Bucket(k2)[j]

\* an entry with progress 8 of 10 was returned in nearly_complete and in pvp,
\* and an entry without a record was returned with progress 0 of 1
C8_Witness ==
    /\ Succeeded
    /\ \E i \in 1..Len(Bucket("nearly_complete")) : \E j \in 1..Len(Bucket("pvp")) :
           /\ Bucket("nearly_complete")[i].id = Bucket("pvp")[j].id
           /\ Bucket("pvp")[j].progress = 8
           /\ Bucket("pvp")[j].max = 10
    /\ \E k \in Sections : \E i \in 1..Len(Bucket(k)) :
           /\ NotDoneAt(Bucket(k)[i].id) = {}
           /\ Bucket(k)[i].progress = 0
           /\ Bucket(k)[i].max = 1

----------------------------------------------------------------------------
(* C9 *)

\* the tables that differ from table in community_priority values only
PriorityVariants(table) ==
    { { [r EXCEPT !.community_priority = f[r.gw2_id]] : r \in table } :
      f \in [{r.gw2_id : r \in table} -> BOOLEAN] }

\* C9: every returned bucket lists not-completed catalog rows in strictly
\* ascending order of name (so each row at most once, in the order of the
\* scan), and the same request over a catalog that differs in
\* community_priority values only returns the same five buckets.
C9_CatalogOrder ==
    Succeeded =>
        /\ \A k \in Keys :
               /\ \A i, j \in 1..Len(Bucket(k)) :
                      i < j => StrLess(Bucket(k)[i].name, Bucket(k)[j].name)
               /\ IdsIn(Bucket(k)) \subseteq {r.gw2_id : r \in NotCompleted}
        /\ \A other \in PriorityVariants(catalog) :
               get(request.api_key, remote, other).response = response

\* a bucket holds two entries, and only the one that comes second has
\* community_priority set
C9_Witness ==
    /\ Succeeded
    /\ \E k \in Keys :
           /\ Len(Bucket(k)) = 2
           /\ ~Row(Bucket(k)[1].id).community_priority
           /\ Row(Bucket(k)[2].id).community_priority

----------------------------------------------------------------------------
(* C10 *)

ReachedScan ==
    Handled /\ \E i \in 1..Len(calls) : calls[i] = "Achievement.exclude"

\* C10 as stated: a not-done record with max = 0 whose id is that of a
\* not-completed catalog row makes the request fail with a division error.
C10_AnyZeroMax ==
    ReachedScan =>
        ((\E r \in NotCompleted : \E i \in NotDoneAt(r.gw2_id) : Snapshot[i].max = 0)
         => (Failed /\ response.raised = "ZeroDivisionError"))

\* C10, amended: the request fails with a division error exactly when, for
\* some not-completed catalog row, the last not-done record of its id has
\* max = 0; then no bucket is returned, whatever was appended before the raise.
\* A done record, or a record whose id is no catalog row's, causes none.
C10_LastZeroMax ==
    ReachedScan =>
        /\ (\E r \in NotCompleted :
                NotDoneAt(r.gw2_id) # {} /\ LastNotDone(r.gw2_id).max = 0)
           <=> response.raised = "ZeroDivisionError"
        /\ response.raised = "ZeroDivisionError" =>
               /\ Failed
               /\ response.recommendations = [k \in Keys |-> <<>>]

\* the division raised after an earlier row had been appended to a bucket
C10_Witness ==
    /\ Failed
    /\ response.raised = "ZeroDivisionError"
    /\ \E k \in Keys : frame.recommendations[k] # <<>>

====
